---- MODULE Spec2Model ----
(***************************************************************************)
(* Driver selection of src/process/drivers/types.rs.                       *)
(*                                                                         *)
(* The file implements DetermineDriver<T> for Option<T>, once per driver   *)
(* category.  A behaviour of this model follows ONE such Option<T> (the    *)
(* receiver `self`, here `slot`) of a category fixed at construction,      *)
(* through any number of determine_driver calls, while the host            *)
(* environment (installed commands, their versions, the CI variables)      *)
(* changes between the calls.  The impl for CiDriverType reads the two CI  *)
(* variables and no command, the other impls read commands and no          *)
(* variable; the part of the host that the category under observation      *)
(* never reads is held at "absent"/"unset".                                *)
(*                                                                         *)
(* Rust evaluates the argument of Option::get_or_insert before the call,   *)
(* so the probing `match` of every impl runs on every call, whether or not *)
(* the slot already holds a value; the model keeps that order.             *)
(***************************************************************************)
EXTENDS Naturals, Sequences, FiniteSets

VARIABLES
    cat,          \* the T of the Option<T> under observation
    sigstore,     \* cargo feature "sigstore" of the build
    slot,         \* *self: "None" or the variant held by Some
    origin,       \* how slot got its value: "none", "override", "resolved"
    env,          \* the host: state of each command and each CI variable
    pc,           \* "idle", or the outcome of the call just made
    ret,          \* value returned by the call just made ("None": nothing)
    probes,       \* the probes the call just made issued, in order
    slotBefore,   \* slot when the call just made started
    originBefore, \* origin when the call just made started
    calls,        \* number of determine_driver calls made so far
    diag          \* message of the panic the call just made ended in

driverVars == <<cat, sigstore, slot, origin, env, pc, ret, probes,
                slotBefore, originBefore, calls, diag>>

\* Platform and ImageMetadata, the two passive types of the file
VARIABLES
    platform,       \* a Platform value
    metadata,       \* an ImageMetadata value: [labels, digest]
    dataOp,         \* the method just called on them ("none": none yet)
    text,           \* the &str / formatted text the method produced
    version,        \* the Option<u64> get_version produced
    metadataBefore  \* metadata when the method just called started

dataVars == <<platform, metadata, dataOp, text, version, metadataBefore>>

vars == <<driverVars, dataVars>>

(* Number of determine_driver calls followed on one slot. *)
MaxCalls == 3

----------------------------------------------------------------------------
(* Types *)

Categories == {"Inspect", "Build", "Signing", "Run", "Ci"}

InspectDriverType == {"Skopeo", "Podman", "Docker"}

BuildDriverType == {"Buildah", "Podman", "Docker"}

SigningDriverType(feature) == IF feature THEN {"Cosign", "Sigstore"} ELSE {"Cosign"}

RunDriverType == {"Podman", "Docker"}

CiDriverType == {"Local", "Gitlab", "Github"}

DriverType(c, feature) ==
    CASE c = "Inspect" -> InspectDriverType
      [] c = "Build"   -> BuildDriverType
      [] c = "Signing" -> SigningDriverType(feature)
      [] c = "Run"     -> RunDriverType
      [] c = "Ci"      -> CiDriverType

----------------------------------------------------------------------------
(* The host environment the probes look at *)

\* Commands without a version requirement: not on PATH, the existence
\* probe itself failing, or on PATH.
PlainCommands == {"skopeo", "cosign"}
PlainStates == {"absent", "error", "present"}

\* Commands of the drivers with a VERSION_REQ: not on PATH, probe failing,
\* on PATH with a version outside the requirement, on PATH with a version
\* inside it.
VersionedCommands == {"docker", "podman", "buildah"}
VersionedStates == {"absent", "error", "old", "ok"}

\* GITLAB_CI and GITHUB_ACTIONS: not set, set to "", set to some text, set
\* to bytes that are not valid Unicode.
EnvVars == {"gitlab_ci", "github_actions"}
VarStates == {"unset", "empty", "text", "nonunicode"}

Environments ==
    [skopeo : PlainStates, cosign : PlainStates,
     docker : VersionedStates, podman : VersionedStates, buildah : VersionedStates,
     gitlab_ci : VarStates, github_actions : VarStates]

\* The host components the impl of category c can read.
Reads(c) == IF c = "Ci" THEN EnvVars ELSE PlainCommands \cup VersionedCommands

\* blue_build_utils::check_command_exists(c).is_ok()
check_command_exists(e, c) == e[c] \in {"present", "old", "ok"}

\* is_supported_version accepting whatever version is installed.
is_supported_version_any(e, c) == e[c] \in {"old", "ok"}

\* <C>Driver::is_supported_version()
is_supported_version(e, c) == e[c] = "ok"

\* env::var(k).ok().is_some(): std::env::var is Err for a variable that is
\* not present and for one whose value is not valid Unicode.
env_var_ok(e, k) == e[k] \in {"empty", "text"}

----------------------------------------------------------------------------
(* The argument expression of each get_or_insert: its value ("panic" when  *)
(* the last arm is taken) and the probes evaluating it issues.             *)

\* InspectMatch with the candidates in the declaration order of the enum
\* (Skopeo, Podman, Docker) instead of the order of the match arms.
InspectMatchEnumOrder(e) ==
    IF check_command_exists(e, "skopeo") THEN "Skopeo"
    ELSE IF check_command_exists(e, "podman") THEN "Podman"
    ELSE IF check_command_exists(e, "docker") THEN "Docker"
    ELSE "panic"

InspectMatch(e) ==
    IF check_command_exists(e, "skopeo") THEN "Skopeo"
    ELSE IF check_command_exists(e, "docker") THEN "Docker"
    ELSE IF check_command_exists(e, "podman") THEN "Podman"
    ELSE "panic"

InspectProbes(e) ==
    <<"check_command_exists(skopeo)", "check_command_exists(docker)",
      "check_command_exists(podman)">>

\* BuildMatch with each version check inside its arm instead of in the
\* arm's guard: the first command found decides, and an unsupported version
\* of it is fatal.
BuildMatchNoFallthrough(e) ==
    IF check_command_exists(e, "docker")
        THEN (IF is_supported_version(e, "docker") THEN "Docker" ELSE "panic")
    ELSE IF check_command_exists(e, "podman")
        THEN (IF is_supported_version(e, "podman") THEN "Podman" ELSE "panic")
    ELSE IF check_command_exists(e, "buildah")
        THEN (IF is_supported_version(e, "buildah") THEN "Buildah" ELSE "panic")
    ELSE "panic"

\* BuildMatch with the Docker and Podman arms swapped.
BuildMatchPodmanFirst(e) ==
    IF check_command_exists(e, "podman") /\ is_supported_version(e, "podman")
        THEN "Podman"
    ELSE IF check_command_exists(e, "docker") /\ is_supported_version(e, "docker")
        THEN "Docker"
    ELSE IF check_command_exists(e, "buildah") /\ is_supported_version(e, "buildah")
        THEN "Buildah"
    ELSE "panic"

BuildMatch(e) ==
    IF check_command_exists(e, "docker") /\ is_supported_version(e, "docker")
        THEN "Docker"
    ELSE IF check_command_exists(e, "podman") /\ is_supported_version(e, "podman")
        THEN "Podman"
    ELSE IF check_command_exists(e, "buildah") /\ is_supported_version(e, "buildah")
        THEN "Buildah"
    ELSE "panic"

\* BuildProbes with the version predicates evaluated up front, next to the
\* existence probes, for every command found.
BuildProbesEager(e) ==
    <<"check_command_exists(docker)", "check_command_exists(podman)",
      "check_command_exists(buildah)">>
    \o (IF check_command_exists(e, "docker")
            THEN <<"is_supported_version(docker)">> ELSE <<>>)
    \o (IF check_command_exists(e, "podman")
            THEN <<"is_supported_version(podman)">> ELSE <<>>)
    \o (IF check_command_exists(e, "buildah")
            THEN <<"is_supported_version(buildah)">> ELSE <<>>)

\* The guard of an arm runs only when the arm's pattern matched and every
\* earlier arm was rejected.
BuildProbes(e) ==
    LET docker  == check_command_exists(e, "docker")
        podman  == check_command_exists(e, "podman")
        buildah == check_command_exists(e, "buildah")
        arm1 == docker /\ is_supported_version(e, "docker")
        arm2 == podman /\ is_supported_version(e, "podman")
    IN  <<"check_command_exists(docker)", "check_command_exists(podman)",
          "check_command_exists(buildah)">>
        \o (IF docker THEN <<"is_supported_version(docker)">> ELSE <<>>)
        \o (IF ~arm1 /\ podman THEN <<"is_supported_version(podman)">> ELSE <<>>)
        \o (IF ~arm1 /\ ~arm2 /\ buildah
                THEN <<"is_supported_version(buildah)">> ELSE <<>>)

\* SigningMatch unwrapping the probe's Result: a probe that fails for
\* another reason than a missing command aborts.
SigningMatchUnwrap(e) ==
    IF e["cosign"] = "error" THEN "panic"
    ELSE IF check_command_exists(e, "cosign") THEN "Cosign" ELSE "Sigstore"

\* SigningMatch with the two arguments of map_or exchanged.
SigningMatchSwapped(e) ==
    IF check_command_exists(e, "cosign") THEN "Sigstore" ELSE "Cosign"

SigningMatch(e) ==
    IF check_command_exists(e, "cosign") THEN "Cosign" ELSE "Sigstore"

SigningProbes(e) == <<"check_command_exists(cosign)">>

\* RunMatch accepting docker or podman on presence alone, without the
\* is_supported_version guards.
RunMatchNoGuard(e) ==
    IF check_command_exists(e, "docker") THEN "Docker"
    ELSE IF check_command_exists(e, "podman") THEN "Podman"
    ELSE "panic"

RunMatch(e) ==
    IF check_command_exists(e, "docker") /\ is_supported_version(e, "docker")
        THEN "Docker"
    ELSE IF check_command_exists(e, "podman") /\ is_supported_version(e, "podman")
        THEN "Podman"
    ELSE "panic"

RunProbes(e) ==
    LET docker == check_command_exists(e, "docker")
        podman == check_command_exists(e, "podman")
        arm1 == docker /\ is_supported_version(e, "docker")
    IN  <<"check_command_exists(docker)", "check_command_exists(podman)">>
        \o (IF docker THEN <<"is_supported_version(docker)">> ELSE <<>>)
        \o (IF ~arm1 /\ podman THEN <<"is_supported_version(podman)">> ELSE <<>>)

CiMatch(e) ==
    LET gitlab_ci      == env_var_ok(e, "gitlab_ci")
        github_actions == env_var_ok(e, "github_actions")
    IN  IF gitlab_ci /\ ~github_actions THEN "Gitlab"
        ELSE IF ~gitlab_ci /\ github_actions THEN "Github"
        ELSE "Local"

CiProbes(e) == <<"env::var(GITLAB_CI)", "env::var(GITHUB_ACTIONS)">>

\* The panic! messages, cut into pieces at the command names and at the
\* interpolated VERSION_REQ constants of the drivers.
InspectPanicMessage ==
    <<"Could not determine inspection strategy. You need either ",
      "skopeo", ", ", "docker", ", or ", "podman">>

BuildPanicMessage ==
    <<"Could not determine strategy, need either ",
      "docker", " version ", "DockerDriver::VERSION_REQ", ", ",
      "podman", " version ", "PodmanDriver::VERSION_REQ", ", or ",
      "buildah", " version ", "BuildahDriver::VERSION_REQ", " to continue">>

\* RunPanicMessage naming only docker's requirement for its two candidates.
RunPanicMessageDockerOnly ==
    <<"Could not determine strategy, need either ",
      "docker", " version ", "DockerDriver::VERSION_REQ", ", or ",
      "podman", " to continue">>

RunPanicMessage ==
    <<"Could not determine strategy, need either ",
      "docker", " version ", "DockerDriver::VERSION_REQ", ", ",
      "podman", " version ", "PodmanDriver::VERSION_REQ", ", or ",
      "buildah", " version ", "BuildahDriver::VERSION_REQ", " to continue">>

PanicMessage(c) ==
    CASE c = "Inspect" -> InspectPanicMessage
      [] c = "Build"   -> BuildPanicMessage
      [] c = "Run"     -> RunPanicMessage
      [] OTHER         -> <<>>

\* Option::get_or_insert(value), for an already evaluated value
get_or_insert(s, value) == IF s = "None" THEN value ELSE s

----------------------------------------------------------------------------
(* Platform *)

Platforms == {"Native", "LinuxAmd64", "LinuxArm64"}

\* #[default]
Platform_default == "Native"

\* Platform::arch returning the text of Display.
Platform_arch_as_fmt(p) ==
    CASE p = "Native"     -> "native"
      [] p = "LinuxAmd64" -> "linux/amd64"
      [] p = "LinuxArm64" -> "linux/arm64"

Platform_arch(p) ==
    CASE p = "Native"     -> "native"
      [] p = "LinuxAmd64" -> "amd64"
      [] p = "LinuxArm64" -> "arm64"

\* impl Display for Platform
Platform_fmt(p) ==
    CASE p = "Native"     -> "native"
      [] p = "LinuxAmd64" -> "linux/amd64"
      [] p = "LinuxArm64" -> "linux/arm64"

----------------------------------------------------------------------------
(* ImageMetadata *)

\* Largest major and minor number among the version labels followed.
MaxMajor == 2
MaxMinor == 1

IMAGE_VERSION_LABEL == "io.blue-build.version"
OtherLabel == "org.opencontainers.image.title"

\* What lenient_semver::parse makes of a text: an error, or a version.
ParseErr == [ok |-> FALSE, major |-> 0, minor |-> 0]
Parses == {ParseErr} \cup [ok : {TRUE}, major : 0..MaxMajor, minor : 0..MaxMinor]

\* serde_json::Value by kind; a string carries what lenient_semver::parse
\* makes of its content.
NonStringKinds == {"null", "bool", "number", "array", "object"}
Values ==
    [kind : NonStringKinds, parsed : {ParseErr}] \cup [kind : {"string"}, parsed : Parses]
OtherValues == {v \in Values : v.kind \in {"number", "string"} /\ ~v.parsed.ok}

LabelMaps ==
    UNION {{f \in [D -> Values] : OtherLabel \in D => f[OtherLabel] \in OtherValues}
              : D \in SUBSET {IMAGE_VERSION_LABEL, OtherLabel}}

Digests == {"sha256:aa", "sha256:bb"}

ImageMetadatas == [labels : LabelMaps, digest : Digests]

\* Option<u64>
NoVersion == [some |-> FALSE, val |-> 0]
SomeVersion(n) == [some |-> TRUE, val |-> n]

\* Value::as_str().is_some()
as_str_some(v) == v.kind = "string"

\* lenient_semver::parse(v)
lenient_semver_parse(v) == v.parsed

\* get_version with the parse error replaced by a default version.
get_version_or_default(m) ==
    IF IMAGE_VERSION_LABEL \notin DOMAIN m.labels THEN NoVersion
    ELSE IF ~as_str_some(m.labels[IMAGE_VERSION_LABEL]) THEN NoVersion
    ELSE SomeVersion(lenient_semver_parse(m.labels[IMAGE_VERSION_LABEL]).major)

get_version(m) ==
    IF IMAGE_VERSION_LABEL \notin DOMAIN m.labels THEN NoVersion
    ELSE IF ~as_str_some(m.labels[IMAGE_VERSION_LABEL]) THEN NoVersion
    ELSE IF ~lenient_semver_parse(m.labels[IMAGE_VERSION_LABEL]).ok THEN NoVersion
    ELSE SomeVersion(lenient_semver_parse(m.labels[IMAGE_VERSION_LABEL]).major)

\* The passive types at rest, while a driver slot is followed.
DataIdle ==
    /\ platform = Platform_default
    /\ metadata = [labels |-> [k \in {} |-> ParseErr], digest |-> "sha256:aa"]
    /\ dataOp = "none"
    /\ text = ""
    /\ version = NoVersion
    /\ metadataBefore = metadata

----------------------------------------------------------------------------
(* Construction *)

Init ==
    /\ cat \in Categories
    /\ sigstore \in BOOLEAN
    /\ slot \in {"None"} \cup DriverType(cat, sigstore)
    /\ origin = IF slot = "None" THEN "none" ELSE "override"
    /\ env \in Environments
    /\ \A k \in DOMAIN env : k \notin Reads(cat) => env[k] \in {"absent", "unset"}
    /\ pc = "idle"
    /\ ret = "None"
    /\ probes = <<>>
    /\ slotBefore = "None"
    /\ originBefore = "none"
    /\ calls = 0
    /\ diag = <<>>
    /\ DataIdle

----------------------------------------------------------------------------
(* determine_driver *)

\* `*self.get_or_insert(value)` where evaluating `value` yields v after
\* issuing the probes p.
GetOrInsertCall(v, p) ==
    /\ pc # "panicked"
    /\ calls < MaxCalls
    /\ calls' = calls + 1
    /\ probes' = p
    /\ slotBefore' = slot
    /\ originBefore' = origin
    /\ IF v = "panic"
          THEN /\ pc' = "panicked"
               /\ ret' = "None"
               /\ diag' = PanicMessage(cat)
               /\ UNCHANGED <<slot, origin>>
          ELSE /\ pc' = "returned"
               /\ slot' = get_or_insert(slot, v)
               /\ ret' = slot'
               /\ diag' = <<>>
               /\ origin' = IF slot = "None" THEN "resolved" ELSE origin
    /\ UNCHANGED <<cat, sigstore, env>>
    /\ UNCHANGED dataVars

InspectDetermineDriver ==
    /\ cat = "Inspect"
    /\ GetOrInsertCall(InspectMatch(env), InspectProbes(env))

BuildDetermineDriver ==
    /\ cat = "Build"
    /\ GetOrInsertCall(BuildMatch(env), BuildProbes(env))

\* With the feature: get_or_insert as in the other categories.  Without
\* it: the body is the bare value Cosign; self is neither read nor written.
SigningDetermineDriver ==
    /\ cat = "Signing"
    /\ IF sigstore
          THEN GetOrInsertCall(SigningMatch(env), SigningProbes(env))
          ELSE /\ pc # "panicked"
               /\ calls < MaxCalls
               /\ calls' = calls + 1
               /\ probes' = <<>>
               /\ slotBefore' = slot
               /\ originBefore' = origin
               /\ pc' = "returned"
               /\ ret' = "Cosign"
               /\ diag' = <<>>
               /\ UNCHANGED <<cat, sigstore, env, slot, origin>>
               /\ UNCHANGED dataVars

RunDetermineDriver ==
    /\ cat = "Run"
    /\ GetOrInsertCall(RunMatch(env), RunProbes(env))

CiDetermineDriver ==
    /\ cat = "Ci"
    /\ GetOrInsertCall(CiMatch(env), CiProbes(env))

----------------------------------------------------------------------------
(* The host changing between two calls *)

Forget ==
    /\ pc' = "idle"
    /\ ret' = "None"
    /\ probes' = <<>>
    /\ slotBefore' = "None"
    /\ originBefore' = "none"
    /\ diag' = <<>>
    /\ UNCHANGED <<cat, sigstore, slot, origin, calls>>
    /\ UNCHANGED dataVars

\* A command is installed, removed, up- or downgraded, or its probe starts
\* or stops failing.
CommandChanges ==
    /\ pc # "panicked"
    /\ \E c \in (PlainCommands \cup VersionedCommands) \cap Reads(cat) :
         \E s \in (IF c \in PlainCommands THEN PlainStates ELSE VersionedStates) :
            /\ s # env[c]
            /\ env' = [env EXCEPT ![c] = s]
    /\ Forget

\* A CI variable is set, changed or unset.
EnvVarChanges ==
    /\ pc # "panicked"
    /\ \E k \in EnvVars \cap Reads(cat) : \E s \in VarStates :
            /\ s # env[k]
            /\ env' = [env EXCEPT ![k] = s]
    /\ Forget

----------------------------------------------------------------------------

Next ==
    \/ InspectDetermineDriver
    \/ BuildDetermineDriver
    \/ SigningDetermineDriver
    \/ RunDetermineDriver
    \/ CiDetermineDriver
    \/ CommandChanges
    \/ EnvVarChanges

Spec == Init /\ [][Next]_vars

----------------------------------------------------------------------------
(* The passive types on their own: any Platform and any ImageMetadata,     *)
(* with the methods of the file called on them in any order.               *)

InitData ==
    /\ cat = "Inspect"
    /\ sigstore = FALSE
    /\ slot = "None"
    /\ origin = "none"
    /\ env = [skopeo |-> "absent", cosign |-> "absent", docker |-> "absent",
              podman |-> "absent", buildah |-> "absent",
              gitlab_ci |-> "unset", github_actions |-> "unset"]
    /\ pc = "idle"
    /\ ret = "None"
    /\ probes = <<>>
    /\ slotBefore = "None"
    /\ originBefore = "none"
    /\ calls = 0
    /\ diag = <<>>
    /\ platform \in Platforms
    /\ metadata \in ImageMetadatas
    /\ dataOp = "none"
    /\ text = ""
    /\ version = NoVersion
    /\ metadataBefore = metadata

\* Platform::default()
PlatformDefault ==
    /\ platform' = Platform_default
    /\ dataOp' = "default"
    /\ text' = ""
    /\ UNCHANGED <<metadata, version, metadataBefore>>
    /\ UNCHANGED driverVars

\* platform.arch()
PlatformArch ==
    /\ text' = Platform_arch(platform)
    /\ dataOp' = "arch"
    /\ UNCHANGED <<platform, metadata, version, metadataBefore>>
    /\ UNCHANGED driverVars

\* platform.to_string()
PlatformFmt ==
    /\ text' = Platform_fmt(platform)
    /\ dataOp' = "fmt"
    /\ UNCHANGED <<platform, metadata, version, metadataBefore>>
    /\ UNCHANGED driverVars

\* metadata.get_version()
GetVersion ==
    /\ version' = get_version(metadata)
    /\ metadataBefore' = metadata
    /\ dataOp' = "get_version"
    /\ text' = ""
    /\ UNCHANGED <<platform, metadata>>
    /\ UNCHANGED driverVars

NextData ==
    \/ PlatformDefault
    \/ PlatformArch
    \/ PlatformFmt
    \/ GetVersion

SpecData == InitData /\ [][NextData]_vars

TypeOK ==
    /\ cat \in Categories
    /\ sigstore \in BOOLEAN
    /\ slot \in {"None"} \cup DriverType(cat, sigstore)
    /\ origin \in {"none", "override", "resolved"}
    /\ (slot = "None") <=> (origin = "none")
    /\ env \in Environments
    /\ pc \in {"idle", "returned", "panicked"}
    /\ ret \in {"None"} \cup DriverType(cat, sigstore)
    /\ calls \in 0..MaxCalls

----------------------------------------------------------------------------
(* Vocabulary of the properties, stated on the host itself *)

Called == pc # "idle"

OnPath(c) == env[c] \in {"present", "old", "ok"}

VersionSupported(c) == env[c] = "ok"

\* "command present and installed version supported"
Qualifies(c) == OnPath(c) /\ VersionSupported(c)

IsSet(k) == env[k] # "unset"

IsVersionProbe(p) ==
    p \in {"is_supported_version(docker)", "is_supported_version(podman)",
           "is_supported_version(buildah)"}

NoVersionProbe == \A i \in 1..Len(probes) : ~IsVersionProbe(probes[i])

----------------------------------------------------------------------------
(* Memoization and overrides *)

\* C1: once a first call has resolved the choice, a later call on the same
\* slot issues no probe at all.
C1_NoProbeAfterResolution ==
    (Called /\ originBefore = "resolved") => probes = <<>>

\* C2: once a choice has been resolved, every later call returns that same
\* value, leaves the slot as it was and does not abort, whatever the host
\* has become in between.
C2_ResolvedChoiceStable ==
    (Called /\ originBefore = "resolved") =>
        /\ pc = "returned"
        /\ ret = slotBefore
        /\ slot = slotBefore

\* C3: with an explicit override v in the slot, Inspection, Build and Run
\* return v whatever is installed; the fatal path is never taken.
C3_OverrideReturned ==
    (Called /\ originBefore = "override" /\ cat \in {"Inspect", "Build", "Run"}) =>
        /\ pc = "returned"
        /\ ret = slotBefore

\* C4: with an explicit override in the slot, a call issues zero probes, in
\* every category.
C4_OverrideNoProbe ==
    (Called /\ originBefore = "override") => probes = <<>>

----------------------------------------------------------------------------
(* Selection on an empty slot *)

FirstCall == Called /\ slotBefore = "None"

\* C5: Build on an empty slot follows the priority Docker, Podman, Buildah
\* among the candidates whose command is present with a supported version.
C5_BuildPriority ==
    (FirstCall /\ cat = "Build") =>
        /\ Qualifies("docker") => (pc = "returned" /\ ret = "Docker")
        /\ (~Qualifies("docker") /\ Qualifies("podman")) =>
               (pc = "returned" /\ ret = "Podman")
        /\ (~Qualifies("docker") /\ ~Qualifies("podman") /\ Qualifies("buildah")) =>
               (pc = "returned" /\ ret = "Buildah")

\* Podman is chosen over a qualifying Buildah when docker is installed with
\* an unsupported version.
C5_Witness ==
    /\ FirstCall /\ cat = "Build"
    /\ env.docker = "old" /\ env.podman = "ok" /\ env.buildah = "ok"
    /\ ret = "Podman"

\* C6: CI Context on an empty slot gives Gitlab when only the GitLab
\* variable is set, Github when only the GitHub variable is set, Local when
\* both or neither are set.
C6_CiBySetVariables ==
    (FirstCall /\ cat = "Ci") =>
        /\ pc = "returned"
        /\ (IsSet("gitlab_ci") /\ ~IsSet("github_actions")) => ret = "Gitlab"
        /\ (~IsSet("gitlab_ci") /\ IsSet("github_actions")) => ret = "Github"
        /\ (IsSet("gitlab_ci") <=> IsSet("github_actions")) => ret = "Local"

\* C7: Inspection, Build and Run without override abort exactly when no
\* candidate of the category satisfies its condition, and return a value of
\* the category otherwise.
C7_FatalIffNoCandidate ==
    (Called /\ originBefore # "override") =>
        /\ cat = "Inspect" =>
              (pc = "panicked" <=>
                 ~(OnPath("skopeo") \/ OnPath("docker") \/ OnPath("podman")))
        /\ cat = "Build" =>
              (pc = "panicked" <=>
                 ~(Qualifies("docker") \/ Qualifies("podman") \/ Qualifies("buildah")))
        /\ cat = "Run" =>
              (pc = "panicked" <=> ~(Qualifies("docker") \/ Qualifies("podman")))
        /\ (cat \in {"Inspect", "Build", "Run"} /\ pc # "panicked") =>
              (pc = "returned" /\ ret \in DriverType(cat, sigstore))

\* Run aborts although docker and buildah are installed: docker's version
\* is unsupported and podman is missing.
C7_Witness ==
    /\ Called /\ originBefore = "none" /\ cat = "Run"
    /\ env.docker = "old" /\ env.podman = "absent" /\ env.buildah = "ok"
    /\ pc = "panicked"

\* C8: Signing and CI Context never abort: every call returns a value of
\* the category, whatever the host and the slot.
C8_SigningCiNeverAbort ==
    cat \in {"Signing", "Ci"} =>
        /\ pc # "panicked"
        /\ Called => (pc = "returned" /\ ret \in DriverType(cat, sigstore))

\* Signing returned although the cosign probe itself failed.
C8_Witness ==
    /\ Called /\ cat = "Signing" /\ sigstore
    /\ env.cosign = "error"
    /\ pc = "returned" /\ ret = "Sigstore"

\* C9: Inspection on an empty slot follows the priority Skopeo, Docker,
\* Podman on command presence alone, and queries no version.
C9_InspectPriority ==
    (FirstCall /\ cat = "Inspect") =>
        /\ OnPath("skopeo") => (pc = "returned" /\ ret = "Skopeo")
        /\ (~OnPath("skopeo") /\ OnPath("docker")) =>
               (pc = "returned" /\ ret = "Docker")
        /\ (~OnPath("skopeo") /\ ~OnPath("docker") /\ OnPath("podman")) =>
               (pc = "returned" /\ ret = "Podman")
        /\ NoVersionProbe

\* Docker is chosen over podman, with a docker of unsupported version.
C9_Witness ==
    /\ FirstCall /\ cat = "Inspect"
    /\ env.skopeo = "absent" /\ env.docker = "old" /\ env.podman = "ok"
    /\ ret = "Docker"

\* C10: Run on an empty slot follows the priority Docker, Podman among the
\* candidates present with a supported version; the outcome is fixed by
\* docker and podman alone, buildah is neither probed nor chosen.
C10_RunPriority ==
    (FirstCall /\ cat = "Run") =>
        /\ Qualifies("docker") => (pc = "returned" /\ ret = "Docker")
        /\ (~Qualifies("docker") /\ Qualifies("podman")) =>
               (pc = "returned" /\ ret = "Podman")
        /\ (~Qualifies("docker") /\ ~Qualifies("podman")) => pc = "panicked"
        /\ \A i \in 1..Len(probes) :
               probes[i] \notin {"check_command_exists(buildah)",
                                 "is_supported_version(buildah)"}

\* Podman is chosen because docker's version is unsupported, with a
\* qualifying buildah on the host.
C10_Witness ==
    /\ FirstCall /\ cat = "Run"
    /\ env.docker = "old" /\ env.podman = "ok" /\ env.buildah = "ok"
    /\ ret = "Podman"

\* C11: Signing on an empty slot returns Sigstore exactly when the sigstore
\* capability is enabled and the cosign probe does not succeed (command
\* absent or probe failing), and Cosign in every other case.
C11_SigningByCosignProbe ==
    (FirstCall /\ cat = "Signing") =>
        /\ pc = "returned"
        /\ ret = IF sigstore /\ ~OnPath("cosign") THEN "Sigstore" ELSE "Cosign"

\* Cosign is returned with the capability enabled, because cosign is
\* installed.
C11_Witness ==
    /\ FirstCall /\ cat = "Signing" /\ sigstore
    /\ env.cosign = "present"
    /\ ret = "Cosign"

----------------------------------------------------------------------------
(* Order of probing *)

\* The candidates of a category, highest priority first, by command name.
Priority(c) ==
    CASE c = "Inspect" -> <<"skopeo", "docker", "podman">>
      [] c = "Build"   -> <<"docker", "podman", "buildah">>
      [] c = "Run"     -> <<"docker", "podman">>

VariantOf(t) ==
    CASE t = "skopeo"  -> "Skopeo"
      [] t = "docker"  -> "Docker"
      [] t = "podman"  -> "Podman"
      [] t = "buildah" -> "Buildah"

ExistenceProbe(t) ==
    CASE t = "skopeo"  -> "check_command_exists(skopeo)"
      [] t = "docker"  -> "check_command_exists(docker)"
      [] t = "podman"  -> "check_command_exists(podman)"
      [] t = "buildah" -> "check_command_exists(buildah)"

VersionProbe(t) ==
    CASE t = "docker"  -> "is_supported_version(docker)"
      [] t = "podman"  -> "is_supported_version(podman)"
      [] t = "buildah" -> "is_supported_version(buildah)"
      [] OTHER         -> "none"

\* The candidate's condition of the category: presence for Inspection,
\* presence with a supported version for Build and Run.
Satisfies(c, t) == IF c = "Inspect" THEN OnPath(t) ELSE Qualifies(t)

\* Position of the returned variant in the priority order of the category.
RankOfRet ==
    CHOOSE k \in 1..Len(Priority(cat)) : VariantOf(Priority(cat)[k]) = ret

\* C14: in a resolution on an empty slot, once a candidate has matched no
\* probe of a lower-priority candidate is attempted.
C14_ShortCircuit ==
    (FirstCall /\ cat \in {"Inspect", "Build", "Run"} /\ pc = "returned") =>
        \A k \in 1..Len(Priority(cat)) :
            k > RankOfRet =>
                \A i \in 1..Len(probes) :
                    /\ probes[i] # ExistenceProbe(Priority(cat)[k])
                    /\ probes[i] # VersionProbe(Priority(cat)[k])

\* C15: a candidate whose probe fails (existence probe erroring, version
\* unsupported) only drops out: the first candidate after it that satisfies
\* its condition is still selected.
C15_FailedProbeSkipsCandidate ==
    (FirstCall /\ cat \in {"Inspect", "Build", "Run"}) =>
        \A k \in 1..Len(Priority(cat)) :
            ( /\ Satisfies(cat, Priority(cat)[k])
              /\ \A j \in 1..(k - 1) : ~Satisfies(cat, Priority(cat)[j])
              /\ \E j \in 1..(k - 1) : env[Priority(cat)[j]] \in {"error", "old"} )
            => (pc = "returned" /\ ret = VariantOf(Priority(cat)[k]))

\* Build selects Buildah after docker's existence probe failed and podman's
\* version was found unsupported.
C15_Witness ==
    /\ FirstCall /\ cat = "Build"
    /\ env.docker = "error" /\ env.podman = "old" /\ env.buildah = "ok"
    /\ pc = "returned" /\ ret = "Buildah"

\* C16: after any call that returns, in any category and with the sigstore
\* capability enabled or disabled, the slot holds the returned value.
C16_SlotHoldsReturned ==
    (Called /\ pc = "returned") => slot = ret

\* C17: CI Context on an empty slot depends only on which of the two
\* variables are set: the host at hand resolves like the host with the same
\* variables set to plain text.
C17_CiIgnoresValues ==
    (FirstCall /\ cat = "Ci") =>
        ret = CiMatch([env EXCEPT
                        !["gitlab_ci"] = IF IsSet("gitlab_ci") THEN "text" ELSE "unset",
                        !["github_actions"] =
                            IF IsSet("github_actions") THEN "text" ELSE "unset"])

\* C19: in Build and Run a version predicate is invoked only for a command
\* whose existence probe succeeded earlier in the same call, and only when
\* no higher-priority candidate qualifies.
C19_VersionProbeGuarded ==
    (Called /\ cat \in {"Build", "Run"}) =>
        \A k \in 1..Len(Priority(cat)) : \A i \in 1..Len(probes) :
            probes[i] = VersionProbe(Priority(cat)[k]) =>
                /\ OnPath(Priority(cat)[k])
                /\ \E j \in 1..(i - 1) : probes[j] = ExistenceProbe(Priority(cat)[k])
                /\ \A h \in 1..(k - 1) : ~Qualifies(Priority(cat)[h])

\* Build queries docker's and podman's version and stops there: podman
\* qualifies, buildah's version is not queried although buildah is installed.
C19_Witness ==
    /\ Called /\ cat = "Build"
    /\ env.docker = "old" /\ env.podman = "ok" /\ env.buildah = "ok"
    /\ probes = <<"check_command_exists(docker)", "check_command_exists(podman)",
                  "check_command_exists(buildah)", "is_supported_version(docker)",
                  "is_supported_version(podman)">>

----------------------------------------------------------------------------
(* The fatal path *)

Names(t) == \E i \in 1..Len(diag) : diag[i] = t

VersionReq(t) ==
    CASE t = "docker"  -> "DockerDriver::VERSION_REQ"
      [] t = "podman"  -> "PodmanDriver::VERSION_REQ"
      [] t = "buildah" -> "BuildahDriver::VERSION_REQ"

NamesWithRequirement(t) ==
    \E i \in 1..(Len(diag) - 2) :
        diag[i] = t /\ diag[i + 1] = " version " /\ diag[i + 2] = VersionReq(t)

\* C18: a call that aborts has resolved nothing and its message names every
\* candidate of the category: skopeo, docker and podman for Inspection;
\* docker, podman and buildah with their version requirements for Build;
\* docker and podman with their version requirements for Run.
C18_DiagnosticNamesCandidates ==
    pc = "panicked" =>
        /\ slot = slotBefore /\ ret = "None"
        /\ cat \in {"Inspect", "Build", "Run"}
        /\ \A k \in 1..Len(Priority(cat)) :
              IF cat = "Inspect" THEN Names(Priority(cat)[k])
              ELSE NamesWithRequirement(Priority(cat)[k])

\* Run aborts on an empty slot, which stays empty.
C18_Witness ==
    /\ pc = "panicked" /\ cat = "Run"
    /\ slotBefore = "None" /\ slot = "None"
    /\ env.docker = "absent" /\ env.podman = "old"

----------------------------------------------------------------------------
(* Platform and ImageMetadata *)

\* C12: every Platform has both strings, Native "native"/"native",
\* LinuxAmd64 "linux/amd64"/"amd64", LinuxArm64 "linux/arm64"/"arm64", and
\* the default Platform is Native.
C12_PlatformTable ==
    /\ dataOp = "fmt" =>
          \/ platform = "Native" /\ text = "native"
          \/ platform = "LinuxAmd64" /\ text = "linux/amd64"
          \/ platform = "LinuxArm64" /\ text = "linux/arm64"
    /\ dataOp = "arch" =>
          \/ platform = "Native" /\ text = "native"
          \/ platform = "LinuxAmd64" /\ text = "amd64"
          \/ platform = "LinuxArm64" /\ text = "arm64"
    /\ dataOp = "default" => platform = "Native"

\* arch() of LinuxArm64 has been taken.
C12_Witness ==
    dataOp = "arch" /\ platform = "LinuxArm64" /\ text = "arm64"

VersionLabelPresent == IMAGE_VERSION_LABEL \in DOMAIN metadata.labels

\* C13: get_version gives nothing for a missing version label, for a label
\* that is not a string and for a string that does not parse, the major
\* number of the parsed version otherwise, and leaves the metadata as it was.
C13_GetVersion ==
    dataOp = "get_version" =>
        /\ metadata = metadataBefore
        /\ ~VersionLabelPresent => version = NoVersion
        /\ VersionLabelPresent =>
              LET v == metadata.labels[IMAGE_VERSION_LABEL]
              IN  /\ v.kind # "string" => version = NoVersion
                  /\ (v.kind = "string" /\ ~v.parsed.ok) => version = NoVersion
                  /\ (v.kind = "string" /\ v.parsed.ok) =>
                        version = [some |-> TRUE, val |-> v.parsed.major]

\* get_version gave major 2 for a string label parsed as 2.1, next to
\* another label.
C13_Witness ==
    /\ dataOp = "get_version"
    /\ DOMAIN metadata.labels = {IMAGE_VERSION_LABEL, OtherLabel}
    /\ metadata.labels[IMAGE_VERSION_LABEL] =
           [kind |-> "string", parsed |-> [ok |-> TRUE, major |-> 2, minor |-> 1]]
    /\ version = [some |-> TRUE, val |-> 2]

====
